---- MODULE Spec2Model ----
(***************************************************************************)
(* A model of the snake game of src/src/main.rs: the App (snake, food,     *)
(* extents, ended flag), the operations App::update, App::handle_input,    *)
(* Snake::update, Snake::self_collision, Food::reset and random_pos, and   *)
(* the event loop of main that dispatches them.                            *)
(*                                                                         *)
(* Coordinates are f64 in the source.  Every coordinate the program        *)
(* computes is an integer multiple of 15 far below 2^53, so the f64        *)
(* arithmetic is exact and is modelled by integer arithmetic.              *)
(***************************************************************************)
EXTENDS Integers, Sequences, FiniteSets, TLC

\* ---------------------------------------------------------------- bounds
\* The largest extent, in cells, the model draws width and height from
\* (main uses 300/15 = 20 cells).
MaxCells == 3
\* The longest body the model lets the snake grow to (the source has no limit
\* but the grid).
MaxLen == 5

\* -------------------------------------------------------------- constants
\* const ITEM_SIZE: f64 = 15.0
ITEM_SIZE == 15
\* Snake::new(15.0, snake_pos): the step of the snake
SNAKE_SIZE == 15

VARIABLES
    body,       \* snake.body, head first (LinkedList<Position>)
    direction,  \* snake.direction
    food,       \* food.position
    width,      \* app.width
    height,     \* app.height
    ended,      \* app.ended
    pc,         \* where main is: "loop", "reset" (inside Food::reset), "exit"
    result,     \* the SnakeMoveResult of the last Snake::update ("None" before)
    tickDir     \* the direction the last Snake::update matched on ("None" before)

vars == <<body, direction, food, width, height, ended, pc, result, tickDir>>

\* enum Direction
Direction == {"Left", "Right", "Up", "Down"}

\* the buttons a ButtonEvent can carry: the four arrow keys and any other one
Button == {"Up", "Down", "Left", "Right", "Other"}

\* struct Position
Position(px, py) == [x |-> px, y |-> py]

\* the extents App::init is given: whole numbers of cells, at least two
\* (random_pos panics on an empty range below that)
Extents == {n * ITEM_SIZE : n \in 2..MaxCells}

\* random_pos without the "- 1.0": every column and row is sampled
random_pos_full(w, h, item_size) ==
    LET grid_size_height == h \div item_size
        grid_size_width  == w \div item_size
    IN  {Position(rand_x * item_size, rand_y * item_size) :
            rand_x \in 0..(grid_size_width - 1),
            rand_y \in 0..(grid_size_height - 1)}

\* ------------------------------------------------------------ random_pos
\* every Position random_pos can return
random_pos(w, h, item_size) ==
    LET grid_size_height == (h \div item_size) - 1
        grid_size_width  == (w \div item_size) - 1
    IN  {Position(rand_x * item_size, rand_y * item_size) :
            rand_x \in 0..(grid_size_width - 1),
            rand_y \in 0..(grid_size_height - 1)}

\* ------------------------------------------------------------------ Snake
\* self_collision with all() for any(): a hit only if every segment is hit
self_collision_all(b, new_pos) ==
    \A i \in 1..Len(b) : b[i].x = new_pos.x /\ b[i].y = new_pos.y

\* Snake::self_collision
self_collision(b, new_pos) ==
    \E i \in 1..Len(b) : b[i].x = new_pos.x /\ b[i].y = new_pos.y

\* Snake::update, lines 133-140: the head moved one step, before wrapping
moved_head(b, dir, size) ==
    LET new_x == b[1].x
        new_y == b[1].y
    IN  CASE dir = "Left"  -> Position(new_x - size, new_y)
          [] dir = "Right" -> Position(new_x + size, new_y)
          [] dir = "Up"    -> Position(new_x, new_y - size)
          [] dir = "Down"  -> Position(new_x, new_y + size)

\* the wrap without the "- self.size": a step below 0 lands on the extent
wrap_low_to_extent(c, extent, size) ==
    IF c >= extent THEN 0
    ELSE IF c < 0 THEN extent
    ELSE c

\* the wrap with > for >=: a coordinate equal to the extent is kept
wrap_off_by_one(c, extent, size) ==
    IF c > extent THEN 0
    ELSE IF c < 0 THEN extent - size
    ELSE c

\* Snake::update, lines 144-148 and 150-154: one coordinate wrapped
wrap(c, extent, size) ==
    IF c >= extent THEN 0
    ELSE IF c < 0 THEN extent - size
    ELSE c

\* Snake::update, lines 142-154: new_pos
wrapped_head(b, dir, size, w, h) ==
    LET m == moved_head(b, dir, size)
    IN  Position(wrap(m.x, w, size), wrap(m.y, h, size))

\* Snake::update, line 161: the test for food, on new_x and new_y
ate_food(b, dir, size, w, h, food_pos) ==
    LET m == moved_head(b, dir, size)
    IN  m.x = food_pos.x /\ m.y = food_pos.y

\* Snake::update with the tail cell, which a move vacates, left out of the
\* collision test
snake_update_skips_tail(b, dir, size, food_pos, w, h) ==
    LET new_pos == wrapped_head(b, dir, size, w, h)
    IN  IF self_collision(SubSeq(b, 1, Len(b) - 1), new_pos)
        THEN [body |-> b, result |-> "End"]
        ELSE LET pushed == <<new_pos>> \o b
             IN  IF ate_food(b, dir, size, w, h, food_pos)
                 THEN [body |-> pushed, result |-> "Food"]
                 ELSE [body |-> SubSeq(pushed, 1, Len(pushed) - 1),
                       result |-> "Ok"]

\* Snake::update with push_front done before the collision test (which then
\* looks at the old segments only)
snake_update_push_first(b, dir, size, food_pos, w, h) ==
    LET new_pos == wrapped_head(b, dir, size, w, h)
        pushed  == <<new_pos>> \o b
    IN  IF self_collision(b, new_pos)
        THEN [body |-> pushed, result |-> "End"]
        ELSE IF ate_food(b, dir, size, w, h, food_pos)
             THEN [body |-> pushed, result |-> "Food"]
             ELSE [body |-> SubSeq(pushed, 1, Len(pushed) - 1),
                   result |-> "Ok"]

\* Snake::update with pop_back done on Food too
snake_update_always_pops(b, dir, size, food_pos, w, h) ==
    LET new_pos == wrapped_head(b, dir, size, w, h)
    IN  IF self_collision(b, new_pos)
        THEN [body |-> b, result |-> "End"]
        ELSE LET pushed == <<new_pos>> \o b
             IN  [body |-> SubSeq(pushed, 1, Len(pushed) - 1),
                  result |-> IF ate_food(b, dir, size, w, h, food_pos)
                             THEN "Food" ELSE "Ok"]

\* Snake::update with push_front done only when the food is eaten
snake_update_no_push(b, dir, size, food_pos, w, h) ==
    LET new_pos == wrapped_head(b, dir, size, w, h)
    IN  IF self_collision(b, new_pos)
        THEN [body |-> b, result |-> "End"]
        ELSE IF ate_food(b, dir, size, w, h, food_pos)
             THEN [body |-> <<new_pos>> \o b, result |-> "Food"]
             ELSE [body |-> SubSeq(b, 1, Len(b) - 1), result |-> "Ok"]

\* Snake::update: the body after the call and the SnakeMoveResult
snake_update(b, dir, size, food_pos, w, h) ==
    LET new_pos == wrapped_head(b, dir, size, w, h)
    IN  IF self_collision(b, new_pos)
        THEN [body |-> b, result |-> "End"]
        ELSE LET pushed == <<new_pos>> \o b
             IN  IF ate_food(b, dir, size, w, h, food_pos)
                 THEN [body |-> pushed, result |-> "Food"]
                 ELSE [body |-> SubSeq(pushed, 1, Len(pushed) - 1),
                       result |-> "Ok"]

\* -------------------------------------------------------------------- App
\* handle_input without the guards: every arrow key is adopted
handle_input_unguarded(last_direction, btn) ==
    IF btn \in {"Up", "Down", "Left", "Right"} THEN btn ELSE last_direction

\* handle_input whose default arm yields Direction::Right
handle_input_default_right(last_direction, btn) ==
    CASE btn = "Up"    /\ last_direction # "Down"  -> "Up"
      [] btn = "Down"  /\ last_direction # "Up"    -> "Down"
      [] btn = "Left"  /\ last_direction # "Right" -> "Left"
      [] btn = "Right" /\ last_direction # "Left"  -> "Right"
      [] OTHER -> "Right"

\* App::handle_input: the direction after a button press
handle_input(last_direction, btn) ==
    CASE btn = "Up"    /\ last_direction # "Down"  -> "Up"
      [] btn = "Down"  /\ last_direction # "Up"    -> "Down"
      [] btn = "Left"  /\ last_direction # "Right" -> "Left"
      [] btn = "Right" /\ last_direction # "Left"  -> "Right"
      [] OTHER -> last_direction

\* the loop without its test of app.ended
running_no_break == pc = "loop"

\* main, lines 228-230: the loop goes on only while the game has not ended
running == pc = "loop" /\ ~ended

\* App::init (with Snake::new and Food::new) for the extents main passes
Init ==
    /\ width \in Extents
    /\ height \in Extents
    /\ food \in random_pos(width, height, ITEM_SIZE)
    /\ \E snake_pos \in random_pos(width, height, ITEM_SIZE) :
           body = <<snake_pos>>
    /\ direction = "Right"
    /\ ended = FALSE
    /\ pc = "loop"
    /\ result = "None"
    /\ tickDir = "None"

\* App::update calling Food::reset on Ok as well as on Food
UpdateEventResetsOnOk ==
    /\ running
    /\ LET r == snake_update(body, direction, SNAKE_SIZE, food, width, height)
       IN  /\ body' = r.body
           /\ result' = r.result
           /\ ended' = IF r.result = "End" THEN TRUE ELSE ended
           /\ pc' = IF r.result \in {"Food", "Ok"} THEN "reset" ELSE "loop"
           /\ Len(r.body) <= MaxLen
    /\ tickDir' = direction
    /\ UNCHANGED <<direction, food, width, height>>

\* App::update moving in the direction of the tick before: a press takes
\* effect one tick late
UpdateEventStale ==
    /\ running
    /\ LET used == IF tickDir = "None" THEN direction ELSE tickDir
           r == snake_update(body, used, SNAKE_SIZE, food, width, height)
       IN  /\ body' = r.body
           /\ result' = r.result
           /\ ended' = IF r.result = "End" THEN TRUE ELSE ended
           /\ pc' = IF r.result = "Food" THEN "reset" ELSE "loop"
           /\ Len(r.body) <= MaxLen
    /\ tickDir' = direction
    /\ UNCHANGED <<direction, food, width, height>>

\* main, lines 235-237: an update event, App::update up to the call of
\* Food::reset
UpdateEvent ==
    /\ running
    /\ LET r == snake_update(body, direction, SNAKE_SIZE, food, width, height)
       IN  /\ body' = r.body
           /\ result' = r.result
           /\ ended' = IF r.result = "End" THEN TRUE ELSE ended
           /\ pc' = IF r.result = "Food" THEN "reset" ELSE "loop"
           /\ Len(r.body) <= MaxLen
    /\ tickDir' = direction
    /\ UNCHANGED <<direction, food, width, height>>

\* Food::reset, lines 202-204: a sample that lies on the snake, and the
\* recursive call
ResetRetry ==
    /\ pc = "reset"
    /\ \E new_pos \in random_pos(width, height, ITEM_SIZE) :
           self_collision(body, new_pos)
    /\ UNCHANGED vars

\* Food::reset without the test against the snake: the first sample is
\* committed
ResetAcceptAny ==
    /\ pc = "reset"
    /\ food' \in random_pos(width, height, ITEM_SIZE)
    /\ pc' = "loop"
    /\ UNCHANGED <<body, direction, width, height, ended, result, tickDir>>

\* Food::reset, lines 202-206: a sample off the snake is committed and
\* App::update returns
ResetAccept ==
    /\ pc = "reset"
    /\ \E new_pos \in random_pos(width, height, ITEM_SIZE) :
           /\ ~self_collision(body, new_pos)
           /\ food' = new_pos
    /\ pc' = "loop"
    /\ UNCHANGED <<body, direction, width, height, ended, result, tickDir>>

\* main, lines 238-242: a button press, App::handle_input
ButtonEvent ==
    /\ running
    /\ \E btn \in Button : direction' = handle_input(direction, btn)
    /\ UNCHANGED <<body, food, width, height, ended, pc, result, tickDir>>

\* the loop starting a new game, instead of leaving, once the game has ended
BreakClearsFlag ==
    /\ pc = "loop"
    /\ ended
    /\ ended' = FALSE
    /\ UNCHANGED <<body, direction, food, width, height, pc, result, tickDir>>

\* main, lines 228-230: the first event after the game ended leaves the loop
Break ==
    /\ pc = "loop"
    /\ ended
    /\ pc' = "exit"
    /\ UNCHANGED <<body, direction, food, width, height, ended, result, tickDir>>

Next ==
    \/ UpdateEvent
    \/ ButtonEvent
    \/ ResetRetry
    \/ ResetAccept
    \/ Break

Spec == Init /\ [][Next]_vars

\* The simulation core built from its constructors: Snake::new and Food::new
\* take any Position, so the snake and the food start on any cells of the grid.
CoreInit ==
    /\ width \in Extents
    /\ height \in Extents
    /\ food \in {Position(i * ITEM_SIZE, j * ITEM_SIZE) :
                   i \in 0..(width \div ITEM_SIZE) - 1,
                   j \in 0..(height \div ITEM_SIZE) - 1}
    /\ \E initial_pos \in {Position(i * ITEM_SIZE, j * ITEM_SIZE) :
                                i \in 0..(width \div ITEM_SIZE) - 1,
                                j \in 0..(height \div ITEM_SIZE) - 1} :
           body = <<initial_pos>>
    /\ direction = "Right"
    /\ ended = FALSE
    /\ pc = "loop"
    /\ result = "None"
    /\ tickDir = "None"

CoreSpec == CoreInit /\ [][Next]_vars

\* ================================================================ claims
\* The vocabulary of the claims, stated apart from the code's own operators.

\* the exact opposite of a direction
Opposite(d) ==
    CASE d = "Left"  -> "Right"
      [] d = "Right" -> "Left"
      [] d = "Up"    -> "Down"
      [] d = "Down"  -> "Up"
      [] OTHER       -> "None"

\* every cell of the grid
GridCells ==
    {Position(i * ITEM_SIZE, j * ITEM_SIZE) :
        i \in 0..(width \div ITEM_SIZE) - 1,
        j \in 0..(height \div ITEM_SIZE) - 1}

\* the cell one step from the head in direction d on the torus
TorusHead(d) ==
    CASE d = "Left"  -> Position((body[1].x - SNAKE_SIZE) % width, body[1].y)
      [] d = "Right" -> Position((body[1].x + SNAKE_SIZE) % width, body[1].y)
      [] d = "Up"    -> Position(body[1].x, (body[1].y - SNAKE_SIZE) % height)
      [] d = "Down"  -> Position(body[1].x, (body[1].y + SNAKE_SIZE) % height)

\* cell c is a cell of the body b
OnBody(c, b) == \E i \in 1..Len(b) : b[i] = c

\* C1: in every Snake::update, if the new head after wrapping is not in the
\* body and is the food cell, the result is Food and the body is the old
\* body with the new head in front (the tail is kept).
\* The code tests the food against the head before wrapping, so a step that
\* wraps onto the food is an Ok.
C1_GrewOnFood ==
    [][(UpdateEvent /\ ~OnBody(TorusHead(direction), body)
                    /\ TorusHead(direction) = food)
         => (result' = "Food" /\ body' = <<TorusHead(direction)>> \o body)]_vars

\* C2: in every reachable state the cells of the body are pairwise distinct.
C2_BodyDistinct ==
    \A i, j \in 1..Len(body) : i # j => body[i] # body[j]

\* a body of four cells that has just moved after a turn
C2_Witness ==
    Len(body) >= 4 /\ result = "Ok" /\ pc = "loop" /\ tickDir \in {"Up", "Down"}

\* C3: whatever the button presses between two consecutive ticks, the
\* direction the later tick moves in is never the opposite of the direction
\* the earlier tick moved in.
\* Two presses between ticks (Right, then Up, then Left) reverse the snake.
C3_NoReversalBetweenTicks ==
    [][(UpdateEvent /\ tickDir # "None") => direction # Opposite(tickDir)]_vars

\* C4: one button press never turns the direction into its opposite: the
\* opposite arrow leaves the direction as it is, any other arrow is adopted,
\* whatever the length of the body.
C4_SinglePressNeverReverses ==
    [][ButtonEvent =>
         /\ direction' # Opposite(direction)
         /\ \A btn \in Button :
               LET d == handle_input(direction, btn)
               IN  /\ d # Opposite(direction)
                   /\ btn = Opposite(direction) => d = direction
                   /\ (btn \in Direction /\ btn # Opposite(direction)) => d = btn
                   /\ btn \notin Direction => d = direction]_vars

\* a snake of two cells or more whose direction a press has turned since the
\* last tick
C4_Witness ==
    Len(body) >= 2 /\ tickDir = "Right" /\ direction = "Up" /\ pc = "loop"

\* C5: once ended is true, no later event changes the body, the food or
\* ended.
C5_EndedIsFrozen ==
    [][ended => (body' = body /\ food' = food /\ ended')]_vars

\* the game has ended and a further event has been taken
C5_Witness ==
    ended /\ pc = "exit" /\ Len(body) >= 2

\* C6: Food::reset terminates under fair sampling whenever a cell of the grid
\* is free of the body: as the body does not change while reset runs, a reset
\* that is running with a free cell can commit a sample.
\* random_pos never samples the last column or row, so a body that covers
\* all the other cells leaves reset retrying forever.
C6_ResetTerminatesIfCellFree ==
    (pc = "reset" /\ \E c \in GridCells : ~OnBody(c, body))
        => ENABLED ResetAccept

\* C7: on a 30 x 30 grid of cell size 15, a one-cell snake at (0,0) heading
\* Right with the food at (15,0): one tick gives head (15,0), result Food and
\* a body of two cells, and the reset it calls completes on a food cell that
\* is neither (0,0) nor (15,0).
\* random_pos(30, 30, 15) only returns (0,0), which the body holds.
C7_ScenarioGrow ==
    [][(/\ UpdateEvent
        /\ width = 30 /\ height = 30
        /\ body = <<Position(0, 0)>> /\ direction = "Right"
        /\ food = Position(15, 0))
         => /\ body' = <<Position(15, 0), Position(0, 0)>>
            /\ result' = "Food"
            /\ \E c \in random_pos(width, height, ITEM_SIZE) :
                  /\ ~self_collision(body', c)
                  /\ c \notin {Position(0, 0), Position(15, 0)}]_vars

\* C8: when Food::reset has returned, the food is on no cell of the body: so
\* it is from the return of a tick whose result is Food until the next tick.
C8_FoodOffBodyAfterReset ==
    (result = "Food" /\ pc # "reset") => ~OnBody(food, body)

\* a tick that grew the snake to three cells has returned
C8_Witness ==
    result = "Food" /\ pc = "loop" /\ Len(body) >= 3

\* C9: if the new head after wrapping is any cell of the body, the tail
\* included, Snake::update returns End and the tick sets ended.
C9_CollisionEnds ==
    [][(UpdateEvent /\ OnBody(TorusHead(direction), body))
         => (result' = "End" /\ ended')]_vars

\* the game ended on a step into the tail cell
C9_Witness ==
    /\ ended /\ result = "End" /\ Len(body) >= 2
    /\ TorusHead(tickDir) = body[Len(body)]

\* C10: a Snake::update that returns End leaves the body and the direction
\* as they were.
C10_EndLeavesBody ==
    [][(UpdateEvent /\ result' = "End")
         => (body' = body /\ direction' = direction)]_vars

\* the game ended with a body of three cells or more, on a step into a cell
\* that is not the tail
C10_Witness ==
    /\ result = "End" /\ pc = "loop" /\ Len(body) >= 3
    /\ \E i \in 1..Len(body) - 1 : body[i] = TorusHead(tickDir)

\* C11: a Snake::update that returns Food leaves the body one cell longer, one
\* that returns Ok leaves its length as it was.
C11_GrowthLaw ==
    [][UpdateEvent =>
         /\ result' = "Food" => Len(body') = Len(body) + 1
         /\ result' = "Ok" => Len(body') = Len(body)]_vars

\* a tick has just grown the snake to four cells
C11_Witness ==
    result = "Food" /\ pc = "reset" /\ Len(body) = 4

\* the coordinates a step can produce on an axis of extent e: one step below
\* 0 up to one step past the last cell
StepCoordinates(e) == {k * SNAKE_SIZE : k \in (-1)..(e \div SNAKE_SIZE)}

\* C12: every cell of the body has x in [0, width) and y in [0, height); the
\* wrap turns a step past the far edge into 0, a step below 0 into the extent
\* less one cell, and leaves any other coordinate as it is.
C12_BodyOnGrid ==
    /\ \A i \in 1..Len(body) :
          /\ 0 <= body[i].x /\ body[i].x < width
          /\ 0 <= body[i].y /\ body[i].y < height
    /\ \A e \in {width, height} : \A c \in StepCoordinates(e) :
          /\ c = e => wrap(c, e, SNAKE_SIZE) = 0
          /\ c = -SNAKE_SIZE => wrap(c, e, SNAKE_SIZE) = e - ITEM_SIZE
          /\ (0 <= c /\ c < e) => wrap(c, e, SNAKE_SIZE) = c

\* the snake has stepped past the right edge and its head is in column 0
C12_Witness ==
    /\ Len(body) >= 2 /\ result = "Ok" /\ tickDir = "Right"
    /\ body[1].x = 0 /\ body[2].x = width - ITEM_SIZE

\* C13: the body is never empty.
C13_BodyNotEmpty ==
    Len(body) >= 1

\* a snake of one cell has moved: its only cell was popped after the push
C13_Witness ==
    Len(body) = 1 /\ result = "Ok" /\ tickDir = "Down"

\* cell c lies outside the last column and the last row of the grid
InMargin(c) ==
    /\ 0 <= c.x \div ITEM_SIZE /\ c.x \div ITEM_SIZE < (width \div ITEM_SIZE) - 1
    /\ 0 <= c.y \div ITEM_SIZE /\ c.y \div ITEM_SIZE < (height \div ITEM_SIZE) - 1

\* C14: every cell random_pos produces, so the food in every reachable state
\* and the first cell of the snake, lies outside the last column and row.
C14_FoodOutsideLastRowAndColumn ==
    /\ \A c \in random_pos(width, height, ITEM_SIZE) : InMargin(c)
    /\ InMargin(food)
    /\ result = "None" => InMargin(body[1])

\* a reset has put the food in the last column and row it can take
C14_Witness ==
    /\ result = "Food" /\ pc = "loop" /\ width = 45 /\ height = 45
    /\ food = Position(15, 15)

\* C15: the game starts with ended false, and once ended is true no step
\* makes it false again.
C15_EndedWriteOnce ==
    ~ended /\ [][ended => ended']_vars

\* the game has ended with a body of three cells or more and the loop is left
C15_Witness ==
    ended /\ pc = "exit" /\ Len(body) >= 3 /\ tickDir = "Up"

\* C16: a tick whose result is Ok leaves the food and ended as they were, a
\* tick whose result is End leaves the food as it was, and the food changes
\* only inside the Food::reset of a tick whose result is Food.
C16_FoodChangesOnlyOnGrew ==
    [][/\ (UpdateEvent /\ result' = "Ok") => (food' = food /\ ended' = ended)
       /\ (UpdateEvent /\ result' = "End") => food' = food
       /\ food' # food => (pc = "reset" /\ result = "Food")]_vars

\* a snake of two cells has made a plain move with the food elsewhere
C16_Witness ==
    /\ result = "Ok" /\ pc = "loop" /\ ~ended /\ Len(body) = 2
    /\ ~OnBody(food, body)

\* C17: a button press changes nothing but the direction of the snake, and a
\* button that is no arrow key does not change the direction either.
C17_InputOnlyTurns ==
    [][ButtonEvent =>
         /\ body' = body /\ food' = food /\ ended' = ended
         /\ width' = width /\ height' = height
         /\ \A btn \in Button \ Direction :
               handle_input(direction, btn) = direction]_vars

\* a press has turned a snake of three cells Down since its last tick, which
\* moved Left
C17_Witness ==
    Len(body) = 3 /\ tickDir = "Left" /\ direction = "Down" /\ pc = "loop"

\* C18: a tick moves the head in the direction the presses before it left
\* (the direction at the start of the tick), and the direction does not change
\* during the tick, Food::reset included.
C18_InputLatchedThenConsumed ==
    [][/\ UpdateEvent =>
            /\ tickDir' = direction
            /\ direction' = direction
            /\ result' # "End" => body'[1] = TorusHead(direction)
            /\ result' = "End" => OnBody(TorusHead(direction), body)
       /\ pc = "reset" => direction' = direction]_vars

\* a tick has moved the head Up after a press turned the snake from Right
C18_Witness ==
    /\ tickDir = "Up" /\ direction = "Up" /\ result = "Ok" /\ Len(body) >= 2
    /\ body[1].x = body[2].x /\ body[1].y # body[2].y

\* C19: between operations, while the game has not ended, the food is on no
\* cell of the body.
\* App::init draws the food and the snake's cell independently, and a step
\* that wraps onto the food does not eat it (C1).
C19_FoodNeverUnderSnake ==
    (pc = "loop" /\ ~ended) => ~OnBody(food, body)

\* cells a and b are one step apart along one axis of the torus, with the
\* other coordinate equal
Adjacent(a, b) ==
    \/ /\ a.y = b.y
       /\ (a.x - b.x) % width \in {ITEM_SIZE % width, (-ITEM_SIZE) % width}
    \/ /\ a.x = b.x
       /\ (a.y - b.y) % height \in {ITEM_SIZE % height, (-ITEM_SIZE) % height}

\* C20: in every reachable state each two consecutive cells of the body are
\* one step apart along one axis of the torus.
C20_BodyConnected ==
    \A i \in 1..(Len(body) - 1) : Adjacent(body[i], body[i + 1])

\* a body of three cells or more that has turned and then crossed the left
\* edge
C20_Witness ==
    /\ Len(body) >= 3
    /\ body[1].x = width - ITEM_SIZE /\ body[2].x = 0
    /\ body[2].y # body[3].y

====
